---- MODULE Spec2Model ----
(***************************************************************************)
(* Model of data_health_analyzer.py: parse_csv_rows, validate_rows,        *)
(* compute_summary_statistics, generate_openai_summary and                 *)
(* analyze_csv_content.                                                    *)
(*                                                                         *)
(* Strings that the code trims or parses are sequences of one-character    *)
(* strings, so that str.strip() and int() are computed, not assumed.       *)
(* Floats rounded to two decimals are integers counting hundredths.        *)
(***************************************************************************)
EXTENDS Integers, Sequences, FiniteSets, TLC

VARIABLES pc, csv_text, rows, error, idx, warnings, seen_user_ids,
          sessions_per_user, errors_flag_by_user, unique_user_ids, stats,
          ai_summary, ai_notice

vars == <<pc, csv_text, rows, error, idx, warnings, seen_user_ids,
          sessions_per_user, errors_flag_by_user, unique_user_ids, stats,
          ai_summary, ai_notice>>

(* ---------------------------------------------------------------- bounds *)
MaxRows == 3
MaxProbeRows == 2

(* --------------------------------------------------------------- strings *)
None == <<"None">>

EXPECTED_COLUMNS == <<"user_id", "sessions", "clicks", "errors">>
NUMERIC_COLUMNS == <<"sessions", "clicks", "errors">>

Digits == {"0", "1", "2", "3", "4", "5", "6", "7", "8", "9"}

DigitVal(c) ==
  CASE c = "0" -> 0 [] c = "1" -> 1 [] c = "2" -> 2 [] c = "3" -> 3
    [] c = "4" -> 4 [] c = "5" -> 5 [] c = "6" -> 6 [] c = "7" -> 7
    [] c = "8" -> 8 [] c = "9" -> 9

RECURSIVE LStrip(_)
LStrip(s) == IF s # <<>> /\ Head(s) = " " THEN LStrip(Tail(s)) ELSE s

RECURSIVE RStrip(_)
RStrip(s) ==
  IF s # <<>> /\ s[Len(s)] = " " THEN RStrip(SubSeq(s, 1, Len(s) - 1)) ELSE s

\* str.strip()
Strip(s) == RStrip(LStrip(s))

\* (value or ""): None and the empty string both become the empty string
OrEmpty(v) == IF v = None THEN <<>> ELSE v

RECURSIVE DigitsValue(_, _)
DigitsValue(s, acc) ==
  IF s = <<>> THEN acc ELSE DigitsValue(Tail(s), acc * 10 + DigitVal(Head(s)))

AllDigits(s) == s # <<>> /\ \A i \in 1..Len(s) : s[i] \in Digits

\* int(raw_value): an optional sign followed by decimal digits; anything else
\* raises ValueError (ok = FALSE).
ParseInt(s) ==
  LET body == IF s # <<>> /\ Head(s) \in {"-", "+"} THEN Tail(s) ELSE s
      neg  == s # <<>> /\ Head(s) = "-"
  IN IF AllDigits(body)
       THEN [ok |-> TRUE,
             val |-> IF neg THEN 0 - DigitsValue(body, 0) ELSE DigitsValue(body, 0)]
       ELSE [ok |-> FALSE, val |-> 0]

RECURSIVE SumSeq(_)
SumSeq(s) == IF s = <<>> THEN 0 ELSE Head(s) + SumSeq(Tail(s))

RECURSIVE SumOver(_, _)
SumOver(f, S) ==
  IF S = {} THEN 0
  ELSE LET x == CHOOSE y \in S : TRUE IN f[x] + SumOver(f, S \ {x})

\* round(num / den, 2), in hundredths; ties go to the even hundredth
Round2(num, den) ==
  LET n == num * 100
      q == n \div den
      r == n % den
  IN IF 2 * r > den THEN q + 1
     ELSE IF 2 * r < den THEN q
     ELSE IF q % 2 = 0 THEN q ELSE q + 1

Range(s) == {s[i] : i \in 1..Len(s)}

SeqsUpTo(S, n) == UNION {[1..k -> S] : k \in 0..n}

(* ------------------------------------------------------------------ input *)
\* A CSV text is its header line (None for a text without any line) and its
\* later lines, each a sequence of cells; the empty sequence is a blank line.
UserCells == {<<" ">>, <<"a">>, <<" ", "a", " ">>, <<"b">>, <<"c">>}

\* sessions, clicks, errors of a data line: every field accepted (sessions
\* padded, errors zero); clicks negative, errors positive; every field refused
AcceptedCells ==
  { <<<<" ", "4", " ">>, <<"7">>, <<"0">>>>,
    <<<<"2">>, <<"-", "1">>, <<"3">>>> }

RefusedCells == <<<<"a", "b">>, <<>>, <<"-", "3">>>>

DataLines ==
  {<<u>> \o n : u \in UserCells, n \in AcceptedCells}
  \cup {<<u>> \o RefusedCells : u \in {<<"a">>, <<"b">>}}

ProbeHeaders ==
  { None,
    <<>>,
    EXPECTED_COLUMNS,
    <<"user_id", "sessions">>,
    <<"clicks", "errors", "extra">>,
    <<"sessions", "user_id", "extra", "errors", "clicks">> }

\* a blank line, a line shorter than the header, a line longer than the
\* header, a line of blank and malformed cells
ProbeLines ==
  { <<>>,
    <<<<"b">>, <<"-", "3">>>>,
    <<<<"2">>, <<" ", "a">>, <<"x">>, <<"+", "3">>, <<"7">>, <<"9">>>>,
    <<<<" ">>, <<>>, <<"1", ".", "5">>, <<"1", ".", "5">>>> }

CsvTexts ==
  {[header |-> EXPECTED_COLUMNS, lines |-> l] : l \in SeqsUpTo(DataLines, MaxRows)}

ProbeCsvTexts ==
  {[header |-> h, lines |-> l] : h \in ProbeHeaders \ {None},
                                  l \in SeqsUpTo(ProbeLines, MaxProbeRows)}
  \cup {[header |-> None, lines |-> <<>>]}

(* --------------------------------------------------------- parse_csv_rows *)
\* csv.DictReader: one dictionary per non-blank line, keyed by the header's
\* names; a name the line is too short for maps to None, a repeated name
\* takes its last cell, cells beyond the header are not reachable by name.
RowOf(header, line) ==
  [col \in Range(header) |->
     LET i == CHOOSE j \in 1..Len(header) :
                  /\ header[j] = col
                  /\ \A k \in (j + 1)..Len(header) : header[k] # col
     IN IF i <= Len(line) THEN line[i] ELSE None]

RECURSIVE DictRows(_, _)
DictRows(header, lines) ==
  IF lines = <<>> THEN <<>>
  ELSE IF Head(lines) = <<>> THEN DictRows(header, Tail(lines))
  ELSE <<RowOf(header, Head(lines))>> \o DictRows(header, Tail(lines))

MissingColumns(header) ==
  SelectSeq(EXPECTED_COLUMNS, LAMBDA col : col \notin Range(header))

ParseCsvRowsNoEmptyCheck(csv) ==
  IF csv.header = None
    THEN [raised |-> TRUE, error |-> <<"missing header row">>, rows |-> <<>>]
  ELSE IF MissingColumns(csv.header) # <<>>
    THEN [raised |-> TRUE,
          error |-> <<"missing required columns">> \o MissingColumns(csv.header),
          rows |-> <<>>]
  ELSE [raised |-> FALSE, error |-> <<>>,
        rows |-> DictRows(csv.header, csv.lines)]

ParseCsvRows(csv) ==
  IF csv.header = None
    THEN [raised |-> TRUE, error |-> <<"missing header row">>, rows |-> <<>>]
  ELSE IF MissingColumns(csv.header) # <<>>
    THEN [raised |-> TRUE,
          error |-> <<"missing required columns">> \o MissingColumns(csv.header),
          rows |-> <<>>]
  ELSE IF DictRows(csv.header, csv.lines) = <<>>
    THEN [raised |-> TRUE, error |-> <<"empty dataset">>, rows |-> <<>>]
  ELSE [raised |-> FALSE, error |-> <<>>,
        rows |-> DictRows(csv.header, csv.lines)]

\* row.get(column)
Get(row, column) == IF column \in DOMAIN row THEN row[column] ELSE None

(* ---------------------------------------------------------- validate_rows *)
EmptyDict == [k \in {} |-> 0]

Put(d, k, v) == [x \in (DOMAIN d) \cup {k} |-> IF x = k THEN v ELSE d[x]]

\* defaultdict(list)[k] and defaultdict(bool)[k] read without inserting
SessionsOf(d, k) == IF k \in DOMAIN d THEN d[k] ELSE <<>>
FlagOf(d, k) == IF k \in DOMAIN d THEN d[k] ELSE FALSE

Warning(row_number, kind, column, value) ==
  [row |-> row_number, kind |-> kind, column |-> column, value |-> value]

InitialValidation ==
  [warnings |-> <<>>, seen_user_ids |-> {}, sessions_per_user |-> EmptyDict,
   errors_flag_by_user |-> EmptyDict, unique_user_ids |-> <<>>]

UserIdRaw(row) == OrEmpty(Get(row, "user_id"))

UserId(row) == Strip(OrEmpty(Get(row, "user_id")))

RegisterUserNoSeenAdd(st, user_id, row_number) ==
  IF user_id # <<>>
    THEN IF user_id \notin st.seen_user_ids
           THEN [st EXCEPT !.unique_user_ids = Append(@, user_id)]
           ELSE [st EXCEPT !.warnings =
                   Append(@, Warning(row_number, "duplicate user_id",
                                     "user_id", user_id))]
    ELSE [st EXCEPT !.warnings = Append(@, Warning(row_number, "missing value",
                                                   "user_id", <<>>))]

RegisterUserWarnOnce(st, user_id, row_number) ==
  IF user_id # <<>>
    THEN IF user_id \notin st.seen_user_ids
           THEN [st EXCEPT !.unique_user_ids = Append(@, user_id),
                           !.seen_user_ids = @ \cup {user_id}]
           ELSE IF \E i \in 1..Len(st.warnings) :
                     /\ st.warnings[i].kind = "duplicate user_id"
                     /\ st.warnings[i].value = user_id
                  THEN st
                  ELSE [st EXCEPT !.warnings =
                          Append(@, Warning(row_number, "duplicate user_id",
                                            "user_id", user_id))]
    ELSE [st EXCEPT !.warnings = Append(@, Warning(row_number, "missing value",
                                                   "user_id", <<>>))]

\* lines 86-93
RegisterUser(st, user_id, row_number) ==
  IF user_id # <<>>
    THEN IF user_id \notin st.seen_user_ids
           THEN [st EXCEPT !.unique_user_ids = Append(@, user_id),
                           !.seen_user_ids = @ \cup {user_id}]
           ELSE [st EXCEPT !.warnings =
                   Append(@, Warning(row_number, "duplicate user_id",
                                     "user_id", user_id))]
    ELSE [st EXCEPT !.warnings = Append(@, Warning(row_number, "missing value",
                                                   "user_id", <<>>))]

AccumulateAssignFlag(st, user_id, column, numeric_value) ==
  LET s1 == IF column = "sessions" /\ user_id # <<>>
              THEN [st EXCEPT !.sessions_per_user =
                      Put(@, user_id, Append(SessionsOf(@, user_id), numeric_value))]
              ELSE st
  IN IF column = "errors" /\ user_id # <<>>
       THEN [s1 EXCEPT !.errors_flag_by_user = Put(@, user_id, numeric_value > 0)]
       ELSE s1

\* lines 114-117: what an accepted value does to the per-user observations
Accumulate(st, user_id, column, numeric_value) ==
  LET s1 == IF column = "sessions" /\ user_id # <<>>
              THEN [st EXCEPT !.sessions_per_user =
                      Put(@, user_id, Append(SessionsOf(@, user_id), numeric_value))]
              ELSE st
  IN IF column = "errors" /\ user_id # <<>> /\ numeric_value > 0
       THEN [s1 EXCEPT !.errors_flag_by_user = Put(@, user_id, TRUE)]
       ELSE s1

CheckFieldKeepNegative(st, user_id, row, column, row_number) ==
  LET raw_value == Strip(OrEmpty(Get(row, column)))
      parsed    == ParseInt(raw_value)
  IN IF raw_value = <<>>
       THEN [st EXCEPT !.warnings =
               Append(@, Warning(row_number, "missing value", column, <<>>))]
     ELSE IF ~parsed.ok
       THEN [st EXCEPT !.warnings =
               Append(@, Warning(row_number, "invalid integer value", column, raw_value))]
     ELSE IF parsed.val < 0
       THEN Accumulate([st EXCEPT !.warnings =
               Append(@, Warning(row_number, "negative value", column, <<>>))],
               user_id, column, parsed.val)
     ELSE Accumulate(st, user_id, column, parsed.val)

\* lines 96-117: one iteration of the loop over NUMERIC_COLUMNS
CheckField(st, user_id, row, column, row_number) ==
  LET raw_value == Strip(OrEmpty(Get(row, column)))
      parsed    == ParseInt(raw_value)
  IN IF raw_value = <<>>
       THEN [st EXCEPT !.warnings =
               Append(@, Warning(row_number, "missing value", column, <<>>))]
     ELSE IF ~parsed.ok
       THEN [st EXCEPT !.warnings =
               Append(@, Warning(row_number, "invalid integer value", column, raw_value))]
     ELSE IF parsed.val < 0
       THEN [st EXCEPT !.warnings =
               Append(@, Warning(row_number, "negative value", column, <<>>))]
     ELSE Accumulate(st, user_id, column, parsed.val)

RECURSIVE CheckFields(_, _, _, _, _)
CheckFields(st, user_id, row, columns, row_number) ==
  IF columns = <<>> THEN st
  ELSE CheckFields(CheckField(st, user_id, row, Head(columns), row_number),
                   user_id, row, Tail(columns), row_number)

ValidateRowFieldsFirst(st, row, row_number) ==
  RegisterUser(CheckFields(st, UserId(row), row, NUMERIC_COLUMNS, row_number),
               UserId(row), row_number)

\* lines 83-117: the body of the loop over the rows
ValidateRow(st, row, row_number) ==
  CheckFields(RegisterUser(st, UserId(row), row_number),
              UserId(row), row, NUMERIC_COLUMNS, row_number)

\* lines 77-119: the whole function, rows numbered from 2
RECURSIVE ValidateFrom(_, _, _)
ValidateFrom(st, rs, row_number) ==
  IF rs = <<>> THEN st
  ELSE ValidateFrom(ValidateRow(st, Head(rs), row_number), Tail(rs), row_number + 1)

ValidateRows(rs) == ValidateFrom(InitialValidation, rs, 2)

(* --------------------------------------------- compute_summary_statistics *)
UsersWithSessions(sessions) == {u \in DOMAIN sessions : sessions[u] # <<>>}

UsersWithErrors(flags) == {u \in DOMAIN flags : flags[u]}

AggregatedSessions(sessions) ==
  [u \in UsersWithSessions(sessions) |-> SumSeq(sessions[u])]

ComputeSummaryStatisticsOverAllUsers(unique, sessions, flags) ==
  LET unique_user_count == Len(unique)
      aggregated_sessions == AggregatedSessions(sessions)
  IN [total_users |-> unique_user_count,
      average_sessions_per_user |->
        IF DOMAIN aggregated_sessions # {}
          THEN Round2(SumOver(aggregated_sessions, DOMAIN aggregated_sessions),
                      unique_user_count)
          ELSE 0,
      percent_users_with_errors |->
        IF unique_user_count # 0
          THEN Round2(Cardinality(UsersWithErrors(flags)) * 100, unique_user_count)
          ELSE 0]

\* lines 128-151; the two averages are in hundredths
ComputeSummaryStatistics(unique, sessions, flags) ==
  LET unique_user_count == Len(unique)
      aggregated_sessions == AggregatedSessions(sessions)
  IN [total_users |-> unique_user_count,
      average_sessions_per_user |->
        IF DOMAIN aggregated_sessions # {}
          THEN Round2(SumOver(aggregated_sessions, DOMAIN aggregated_sessions),
                      Cardinality(DOMAIN aggregated_sessions))
          ELSE 0,
      percent_users_with_errors |->
        IF unique_user_count # 0
          THEN Round2(Cardinality(UsersWithErrors(flags)) * 100, unique_user_count)
          ELSE 0]

(* ------------------------------------------------ generate_openai_summary *)
\* What the process environment and the OpenAI client can answer.
ApiKeys == {None, <<>>, <<"k">>}
Contents == {None, <<>>, <<" ", " ">>, <<" ", "o", "k", " ">>}

SummaryEnvs ==
  [api_key : ApiKeys, importable : BOOLEAN, client_ok : BOOLEAN,
   call_ok : BOOLEAN, has_choices : BOOLEAN, content : Contents,
   has_usage : BOOLEAN]

Returned(summary, notice) ==
  [raised |-> FALSE, error |-> <<>>, summary |-> summary, notice |-> notice]

Raised(what) ==
  [raised |-> TRUE, error |-> what, summary |-> None, notice |-> None]

GenerateOpenaiSummaryStripFirst(env) ==
  IF env.api_key = None \/ env.api_key = <<>>
    THEN Returned(None, <<"OPENAI_API_KEY environment variable is not set">>)
  ELSE IF ~env.importable
    THEN Returned(None, <<"install the 'openai' package">>)
  ELSE IF ~env.client_ok
    THEN Raised(<<"OpenAI() raised">>)
  ELSE IF ~env.call_ok
    THEN Returned(None, <<"OpenAI API call failed">>)
  ELSE IF ~env.has_choices
    THEN Returned(None, <<"OpenAI API returned no completion choices">>)
  ELSE IF env.content = None \/ Strip(OrEmpty(env.content)) = <<>>
    THEN Returned(None, None)
  ELSE IF ~env.has_usage
    THEN Raised(<<"AttributeError: usage">>)
  ELSE Returned(Strip(env.content), None)

\* lines 196-237
GenerateOpenaiSummary(env) ==
  IF env.api_key = None \/ env.api_key = <<>>
    THEN Returned(None, <<"OPENAI_API_KEY environment variable is not set">>)
  ELSE IF ~env.importable
    THEN Returned(None, <<"install the 'openai' package">>)
  ELSE IF ~env.client_ok
    THEN Raised(<<"OpenAI() raised">>)
  ELSE IF ~env.call_ok
    THEN Returned(None, <<"OpenAI API call failed">>)
  ELSE IF ~env.has_choices
    THEN Returned(None, <<"OpenAI API returned no completion choices">>)
  ELSE IF env.content = None \/ env.content = <<>>
    THEN Returned(None, <<"OpenAI API completion contained no message content">>)
  ELSE IF ~env.has_usage
    THEN Raised(<<"AttributeError: usage">>)
  ELSE Returned(Strip(env.content), None)

(* ---------------------------------------------------- analyze_csv_content *)
NoStats ==
  [total_users |-> 0, average_sessions_per_user |-> 0,
   percent_users_with_errors |-> 0]

Init ==
  /\ pc = "parse_csv_rows"
  /\ csv_text = [header |-> None, lines |-> <<>>]
  /\ rows = <<>>
  /\ error = <<>>
  /\ idx = 1
  /\ warnings = <<>>
  /\ seen_user_ids = {}
  /\ sessions_per_user = EmptyDict
  /\ errors_flag_by_user = EmptyDict
  /\ unique_user_ids = <<>>
  /\ stats = NoStats
  /\ ai_summary = None
  /\ ai_notice = None

\* line 242: rows = parse_csv_rows(csv_text); a ValueError leaves the function
ParseCsv(csv) ==
  /\ csv_text' = csv
  /\ LET r == ParseCsvRows(csv)
     IN /\ rows' = r.rows
        /\ error' = r.error
        /\ pc' = IF r.raised THEN "raised" ELSE "validate_rows"
  /\ UNCHANGED <<idx, warnings, seen_user_ids, sessions_per_user,
                 errors_flag_by_user, unique_user_ids, stats, ai_summary, ai_notice>>

Parse ==
  /\ pc = "parse_csv_rows"
  /\ \E csv \in CsvTexts \cup ProbeCsvTexts : ParseCsv(csv)

ParseProbe ==
  /\ pc = "parse_csv_rows"
  /\ \E csv \in ProbeCsvTexts : ParseCsv(csv)

\* lines 83-117: one iteration of validate_rows' loop; rows[idx] is row idx + 1
ValidateStep ==
  /\ pc = "validate_rows"
  /\ idx <= Len(rows)
  /\ LET st == ValidateRow(
                 [warnings |-> warnings, seen_user_ids |-> seen_user_ids,
                  sessions_per_user |-> sessions_per_user,
                  errors_flag_by_user |-> errors_flag_by_user,
                  unique_user_ids |-> unique_user_ids],
                 rows[idx], idx + 1)
     IN /\ warnings' = st.warnings
        /\ seen_user_ids' = st.seen_user_ids
        /\ sessions_per_user' = st.sessions_per_user
        /\ errors_flag_by_user' = st.errors_flag_by_user
        /\ unique_user_ids' = st.unique_user_ids
  /\ idx' = idx + 1
  /\ UNCHANGED <<pc, csv_text, rows, error, stats, ai_summary, ai_notice>>

\* lines 119 and 244: validate_rows returns, compute_summary_statistics runs
ComputeStats ==
  /\ pc = "validate_rows"
  /\ idx > Len(rows)
  /\ stats' = ComputeSummaryStatistics(unique_user_ids, sessions_per_user,
                                       errors_flag_by_user)
  /\ pc' = "generate_openai_summary"
  /\ UNCHANGED <<csv_text, rows, error, idx, warnings, seen_user_ids,
                 sessions_per_user, errors_flag_by_user, unique_user_ids,
                 ai_summary, ai_notice>>

\* lines 245-252: the summary attempt, then the response or the exception
Summarize ==
  /\ pc = "generate_openai_summary"
  /\ \E env \in SummaryEnvs :
       LET r == GenerateOpenaiSummary(env)
       IN /\ ai_summary' = r.summary
          /\ ai_notice' = r.notice
          /\ error' = r.error
          /\ pc' = IF r.raised THEN "raised" ELSE "returned"
  /\ UNCHANGED <<csv_text, rows, idx, warnings, seen_user_ids,
                 sessions_per_user, errors_flag_by_user, unique_user_ids, stats>>

\* The validation-and-aggregation pipeline, over every input of CsvTexts
Next == Parse \/ ValidateStep \/ ComputeStats

Spec == Init /\ [][Next]_vars

\* The whole of analyze_csv_content, over the inputs of ProbeCsvTexts
NextAnalyze == ParseProbe \/ ValidateStep \/ ComputeStats \/ Summarize

SpecAnalyze == Init /\ [][NextAnalyze]_vars

(* ================================================================ claims *)
\* What the claims speak of, stated over the records read so far.
Processed == 1..(idx - 1)

AfterStatistics == pc \in {"generate_openai_summary", "returned"}

TrimmedIdentifier(i) == Strip(OrEmpty(Get(rows[i], "user_id")))

TrimmedField(i, column) == Strip(OrEmpty(Get(rows[i], column)))

IsIntegerText(s) ==
  LET body == IF s # <<>> /\ s[1] \in {"+", "-"} THEN Tail(s) ELSE s
  IN AllDigits(body)

Magnitude(s) == DigitsValue(IF s[1] \in {"+", "-"} THEN Tail(s) ELSE s, 0)

IsNegativeText(s) == IsIntegerText(s) /\ s[1] = "-" /\ Magnitude(s) > 0

IsAcceptedText(s) == IsIntegerText(s) /\ ~IsNegativeText(s)

Occurrences(u) == {i \in Processed : TrimmedIdentifier(i) = u}

Identifiers == {TrimmedIdentifier(i) : i \in Processed} \ {<<>>}

Minimum(S) == CHOOSE x \in S : \A y \in S : x <= y

RECURSIVE AcceptedSessions(_, _)
\* the accepted sessions values of user u in records i, i+1, ..., in order
AcceptedSessions(u, i) ==
  IF i > idx - 1 THEN <<>>
  ELSE IF TrimmedIdentifier(i) = u /\ IsAcceptedText(TrimmedField(i, "sessions"))
    THEN <<Magnitude(TrimmedField(i, "sessions"))>> \o AcceptedSessions(u, i + 1)
  ELSE AcceptedSessions(u, i + 1)

HasPositiveErrors(u) ==
  \E i \in Occurrences(u) :
    /\ IsAcceptedText(TrimmedField(i, "errors"))
    /\ Magnitude(TrimmedField(i, "errors")) > 0

DuplicateWarnings(u) ==
  {j \in 1..Len(warnings) :
     warnings[j].kind = "duplicate user_id" /\ warnings[j].value = u}

\* C1: an identifier that occurs k >= 1 times among the records read gets
\* exactly k-1 duplicate warnings, one for each occurrence but the first, is
\* registered exactly once, and the accepted sessions values and the
\* positive-errors flag of all its records are kept under that one user.
C1_DuplicatesWarnedAndMerged ==
  \A u \in Identifiers :
    LET occ == Occurrences(u)
        dup == DuplicateWarnings(u)
    IN /\ Cardinality(dup) = Cardinality(occ) - 1
       /\ {warnings[j].row : j \in dup} = {i + 1 : i \in occ \ {Minimum(occ)}}
       /\ Cardinality({j \in 1..Len(unique_user_ids) : unique_user_ids[j] = u}) = 1
       /\ SessionsOf(sessions_per_user, u) = AcceptedSessions(u, 1)
       /\ FlagOf(errors_flag_by_user, u) = HasPositiveErrors(u)

\* C1 witness: a user seen three times, with two duplicate warnings and the
\* sessions of more than one record merged.
C1_Witness ==
  \E u \in Identifiers :
    /\ Cardinality(Occurrences(u)) = 3
    /\ Cardinality(DuplicateWarnings(u)) = 2
    /\ Len(SessionsOf(sessions_per_user, u)) >= 2
    /\ FlagOf(errors_flag_by_user, u)

\* C2: total_users is the number of distinct identifiers that are non-empty
\* after trimming, whatever the numeric fields of their records hold.
C2_TotalUsersCountsIdentifiers ==
  AfterStatistics => stats.total_users = Cardinality(Identifiers)

\* C2 witness: a user all of whose numeric fields were refused and a user
\* whose identifier is padded are counted, a blank identifier is not.
C2_Witness ==
  /\ AfterStatistics
  /\ stats.total_users = 2
  /\ \E i \in Processed : TrimmedIdentifier(i) = <<>>
  /\ \E i \in Processed :
       /\ TrimmedIdentifier(i) # <<>>
       /\ TrimmedIdentifier(i) # Get(rows[i], "user_id")
  /\ \E u \in Identifiers :
       \A i \in Occurrences(u) : \A c \in Range(NUMERIC_COLUMNS) :
         ~IsAcceptedText(TrimmedField(i, c))

AcceptedSessionRecords ==
  {i \in Processed : /\ TrimmedIdentifier(i) # <<>>
                     /\ IsAcceptedText(TrimmedField(i, "sessions"))}

RECURSIVE SumOfSessions(_)
SumOfSessions(S) ==
  IF S = {} THEN 0
  ELSE LET i == CHOOSE x \in S : TRUE
       IN Magnitude(TrimmedField(i, "sessions")) + SumOfSessions(S \ {i})

\* C3: average_sessions_per_user is the sum of the accepted sessions values
\* over the number of users that contributed one, rounded to 2 decimals, and
\* 0 when there is none.
C3_AverageSessions ==
  AfterStatistics =>
    LET users == {TrimmedIdentifier(i) : i \in AcceptedSessionRecords}
    IN stats.average_sessions_per_user =
         IF users = {} THEN 0
         ELSE Round2(SumOfSessions(AcceptedSessionRecords), Cardinality(users))

\* C3 witness: three users, one without an accepted sessions value, and an
\* average that needed rounding.
C3_Witness ==
  /\ AfterStatistics
  /\ stats.total_users = 3
  /\ Cardinality({TrimmedIdentifier(i) : i \in AcceptedSessionRecords}) = 2
  /\ stats.average_sessions_per_user = 300

\* C4: percent_users_with_errors is 100 times the number of users with a
\* record whose errors value is accepted and positive, over total_users,
\* rounded to 2 decimals; 0 without users; a flag once set stays set.
C4_PercentUsersWithErrors ==
  /\ \A u \in Identifiers : FlagOf(errors_flag_by_user, u) = HasPositiveErrors(u)
  /\ AfterStatistics =>
       stats.percent_users_with_errors =
         IF Cardinality(Identifiers) = 0 THEN 0
         ELSE Round2(100 * Cardinality({u \in Identifiers : HasPositiveErrors(u)}),
                     Cardinality(Identifiers))

\* C4 witness: one user of two has errors (50 percent), and a later record of
\* that user carried errors = 0.
C4_Witness ==
  /\ AfterStatistics
  /\ stats.percent_users_with_errors = 5000
  /\ \E i, j \in Processed :
       /\ i < j
       /\ TrimmedIdentifier(i) = TrimmedIdentifier(j)
       /\ TrimmedIdentifier(i) # <<>>
       /\ TrimmedField(i, "errors") = <<"3">>
       /\ TrimmedField(j, "errors") = <<"0">>

ParseErrors == {"missing header row", "missing required columns", "empty dataset"}

\* C5 (as claimed): once parsing succeeded no failure of the summary step
\* leaves analyze_csv_content as an exception: it returns, with a null summary
\* and a notice.
C5_SummaryFailureNeverPropagates ==
  pc = "raised" => error[1] \in ParseErrors

\* C6: a returned response has exactly one of ai_summary and ai_notice null.
C6_ExactlyOneOfSummaryAndNotice ==
  pc = "returned" => ((ai_summary = None) # (ai_notice = None))

\* C6 witness: a completion of blanks only is returned as the empty summary,
\* without a notice.
C6_Witness ==
  pc = "returned" /\ ai_summary = <<>> /\ ai_notice = None

NoDataRows == \A i \in 1..Len(csv_text.lines) : csv_text.lines[i] = <<>>

Parsed == pc # "parse_csv_rows"

\* C7 (as claimed): every text with a header and no data row fails with the
\* empty-dataset error, also when the header omits required columns.
C7_EmptyDatasetWhateverTheHeader ==
  (Parsed /\ csv_text.header # None /\ NoDataRows) =>
    (pc = "raised" /\ error = <<"empty dataset">>)

\* C7 (amended): a text whose header has every required column and that has
\* no data row fails with the empty-dataset error; when the header omits
\* required columns the missing-columns error is raised instead, naming them.
C7_EmptyDatasetAfterHeaderCheck ==
  (Parsed /\ csv_text.header # None /\ NoDataRows) =>
    /\ pc = "raised"
    /\ error = IF \A c \in Range(EXPECTED_COLUMNS) : c \in Range(csv_text.header)
                 THEN <<"empty dataset">>
                 ELSE <<"missing required columns">> \o
                      SelectSeq(EXPECTED_COLUMNS,
                                LAMBDA c : c \notin Range(csv_text.header))

\* C7 witness: a complete header followed by blank lines only.
C7_Witness ==
  /\ Parsed
  /\ csv_text.header # None
  /\ Range(EXPECTED_COLUMNS) \subseteq Range(csv_text.header)
  /\ Len(csv_text.lines) > 0
  /\ NoDataRows
  /\ error = <<"empty dataset">>

ColumnRank(c) ==
  CASE c = "user_id" -> 0 [] c = "sessions" -> 1 [] c = "clicks" -> 2
    [] c = "errors" -> 3

\* the warning the identifier of record i calls for, if any
IdentifierWarning(i) ==
  IF TrimmedIdentifier(i) = <<>>
    THEN <<Warning(i + 1, "missing value", "user_id", <<>>)>>
  ELSE IF \E j \in 1..(i - 1) : TrimmedIdentifier(j) = TrimmedIdentifier(i)
    THEN <<Warning(i + 1, "duplicate user_id", "user_id", TrimmedIdentifier(i))>>
  ELSE <<>>

\* the warning a numeric field of record i calls for, if any
FieldWarning(i, column) ==
  LET raw == TrimmedField(i, column)
  IN IF raw = <<>> THEN <<Warning(i + 1, "missing value", column, <<>>)>>
     ELSE IF ~IsIntegerText(raw)
       THEN <<Warning(i + 1, "invalid integer value", column, raw)>>
     ELSE IF IsNegativeText(raw)
       THEN <<Warning(i + 1, "negative value", column, <<>>)>>
     ELSE <<>>

WarningsOfRecord(i) == {j \in 1..Len(warnings) : warnings[j].row = i + 1}

IsPrefix(s, t) == Len(s) <= Len(t) /\ SubSeq(t, 1, Len(s)) = s

WarningsInEncounterOrder ==
  /\ \A j \in 1..Len(warnings) : warnings[j].row - 1 \in Processed
  /\ \A j, k \in 1..Len(warnings) :
       j < k =>
         \/ warnings[j].row < warnings[k].row
         \/ /\ warnings[j].row = warnings[k].row
            /\ ColumnRank(warnings[j].column) < ColumnRank(warnings[k].column)
  /\ \A i \in Processed :
       {warnings[j] : j \in WarningsOfRecord(i)} =
         Range(IdentifierWarning(i)) \cup
         UNION {Range(FieldWarning(i, c)) : c \in Range(NUMERIC_COLUMNS)}

\* C8: the warnings of record i carry row number i+2 (0-based i) and come
\* before those of the next record; within a record the identifier's warning
\* comes first, then sessions, clicks, errors; a warning once appended stays
\* where it is.
C8_WarningsKeepEncounterOrder ==
  /\ []WarningsInEncounterOrder
  /\ [][IsPrefix(warnings, warnings')]_vars

\* C8 witness: a second record that is a duplicate with three refused fields,
\* after a first record that had warnings too.
C8_Witness ==
  /\ Cardinality(WarningsOfRecord(1)) >= 1
  /\ Cardinality(WarningsOfRecord(2)) = 4
  /\ \E j \in WarningsOfRecord(2) : warnings[j].kind = "duplicate user_id"

StatisticsWithClicks(cell) ==
  LET rs == [i \in 1..Len(rows) |->
               [c \in DOMAIN rows[i] |-> IF c = "clicks" THEN cell ELSE rows[i][c]]]
      st == ValidateRows(rs)
  IN ComputeSummaryStatistics(st.unique_user_ids, st.sessions_per_user,
                              st.errors_flag_by_user)

\* C9: each numeric field of each record gets at most one warning, and it is
\* the one its trimmed text calls for: missing, invalid (naming the text), or
\* negative; only accepted values reach the sessions lists and error flags;
\* and no clicks value changes the statistics.
C9_OneWarningPerRefusedField ==
  /\ \A i \in Processed : \A c \in Range(NUMERIC_COLUMNS) :
       LET ws == {j \in WarningsOfRecord(i) : warnings[j].column = c}
       IN /\ Cardinality(ws) <= 1
          /\ {warnings[j] : j \in ws} = Range(FieldWarning(i, c))
  /\ \A u \in DOMAIN sessions_per_user : sessions_per_user[u] = AcceptedSessions(u, 1)
  /\ \A u \in DOMAIN errors_flag_by_user : errors_flag_by_user[u] = HasPositiveErrors(u)
  /\ AfterStatistics =>
       \A cell \in {None, <<"9">>, <<"-", "9">>, <<"z">>} :
         StatisticsWithClicks(cell) = stats

\* C9 witness: a negative errors value, a negative clicks value, an invalid
\* sessions text and a missing clicks value, all reported, next to an
\* accepted sessions value.
C9_Witness ==
  /\ AfterStatistics
  /\ \E j \in 1..Len(warnings) :
       warnings[j].kind = "negative value" /\ warnings[j].column = "errors"
  /\ \E j \in 1..Len(warnings) :
       warnings[j].kind = "negative value" /\ warnings[j].column = "clicks"
  /\ \E j \in 1..Len(warnings) :
       warnings[j].kind = "invalid integer value" /\ warnings[j].value = <<"a", "b">>
  /\ \E j \in 1..Len(warnings) :
       warnings[j].kind = "missing value" /\ warnings[j].column = "clicks"
  /\ \E u \in DOMAIN sessions_per_user : Len(sessions_per_user[u]) = 1

FirstSeen(u) == Minimum(Occurrences(u))

\* C10: after every record the registry holds each identifier once, in
\* first-seen order; every user with a sessions list or a set flag is in it;
\* so users with errors and users with sessions are at most total_users and
\* the percentage is between 0 and 100.
C10_RegistryInvariant ==
  /\ Range(unique_user_ids) = Identifiers
  /\ \A p, q \in 1..Len(unique_user_ids) :
       p < q => FirstSeen(unique_user_ids[p]) < FirstSeen(unique_user_ids[q])
  /\ DOMAIN sessions_per_user \subseteq Range(unique_user_ids)
  /\ UsersWithErrors(errors_flag_by_user) \subseteq Range(unique_user_ids)
  /\ Cardinality(UsersWithErrors(errors_flag_by_user)) <= Len(unique_user_ids)
  /\ Cardinality(UsersWithSessions(sessions_per_user)) <= Len(unique_user_ids)
  /\ AfterStatistics =>
       /\ stats.total_users = Len(unique_user_ids)
       /\ stats.percent_users_with_errors \in 0..10000

\* C10 witness: a duplicate between two first occurrences, and every user
\* with errors.
C10_Witness ==
  /\ AfterStatistics
  /\ Len(unique_user_ids) = 2
  /\ idx = 4
  /\ TrimmedIdentifier(1) = TrimmedIdentifier(2)
  /\ stats.percent_users_with_errors = 10000

====
